---------------------------- MODULE Spec2Model ----------------------------
(***************************************************************************)
(* Model of the Calendly webhook handler of calendly-notetaker             *)
(* (src/app/api/webhook/calendly/route.js).                                *)
(*                                                                         *)
(* One invocation of POST is a chain of synchronous segments separated by  *)
(* its awaits: the segment up to `await sleep`, the segment from the timer *)
(* to `await calendar.events.get`, the segment from the answer of the get  *)
(* to `await calendar.events.patch`, and the segment after the patch.      *)
(* Each segment is one action.  The remote calendar is a variable of its   *)
(* own; the handler keeps no state between invocations.                    *)
(*                                                                         *)
(* JavaScript values: a string is a TLA+ string, except the signature      *)
(* header, the raw body and the signing key, which the verifier takes      *)
(* apart character by character and which are sequences of one-character   *)
(* strings.  An object is a record; an absent property is a field that is  *)
(* not in the record's DOMAIN.  A value that may be a number or a string   *)
(* (error.code) is tagged: [num |-> 404] or [str |-> "ECONNRESET"].        *)
(***************************************************************************)
EXTENDS Integers, Sequences, FiniteSets, TLC

(***************************************************************************)
(* Bounds of the model.                                                    *)
(***************************************************************************)
\* number of handler invocations that may be in progress at the same time
NumInvocations == 2
\* number of notifications delivered in one behaviour
MaxDeliveries == 2

(***************************************************************************)
(* CONFIGURATION (route.js 13-30)                                          *)
(***************************************************************************)
AUTHORIZED_HOSTS ==
    << "christina@magicalteams.com",
       "cara@magicalteams.com",
       "mercedes@magicalteams.com" >>

DEFAULT_NOTETAKER_EMAIL == "notetaker@magicalteams.com"

SYNC_DELAY_MS == 5000

\* the value a missing property, a failed find() or a missing header reads as
Undefined == "<undefined>"

\* a request-scoped variable that has not been assigned yet
Nil == [nil |-> TRUE]

(***************************************************************************)
(* String.prototype.toLowerCase on the strings of the model: the           *)
(* mixed-case spellings are mapped to their lower-case form, every other   *)
(* string of the model is lower-case already.                              *)
(***************************************************************************)
toLowerCase(s) ==
    CASE s = "Christina@MagicalTeams.com" -> "christina@magicalteams.com"
      [] s = "CARA@MAGICALTEAMS.COM"      -> "cara@magicalteams.com"
      [] s = "Mallory@Evil.example"       -> "mallory@evil.example"
      [] s = "Notetaker@MagicalTeams.com" -> "notetaker@magicalteams.com"
      [] s = "NOTETAKER@MAGICALTEAMS.COM" -> "notetaker@magicalteams.com"
      [] s = "Notes@MagicalTeams.com"     -> "notes@magicalteams.com"
      [] s = "NOTES@magicalteams.com"     -> "notes@magicalteams.com"
      [] OTHER -> s

\* Array.prototype.includes
includes(arr, v) == \E i \in 1..Len(arr) : arr[i] = v

\* obj.f, reading Undefined when the property is absent
Prop(obj, f) == IF f \in DOMAIN obj THEN obj[f] ELSE Undefined

\* JavaScript truthiness of a string-valued property
Truthy(obj, f) == f \in DOMAIN obj /\ obj[f] # "" /\ obj[f] # Undefined


(***************************************************************************)
(* Character strings: the signature header, the raw body and the signing   *)
(* key are sequences of one-character strings.                             *)
(***************************************************************************)
Alphabet ==
    << "0", "1", "2", "3", "4", "5", "6", "7", "8", "9",
       "a", "b", "c", "d", "e", "f", "A", "B", "C", "D", "E", "F",
       "t", "v", "=", ",", ".", " ", "k", "x", "z",
       "g", "h", "i", "j", "l", "m", "n", "o", "p", "q", "r", "s", "u", "w", "y" >>

\* the byte a character is encoded as (its place in the alphabet)
CharCode(c) == CHOOSE i \in 1..Len(Alphabet) : Alphabet[i] = c

\* String.prototype.startsWith
startsWith(s, prefix) ==
    /\ Len(s) >= Len(prefix)
    /\ \A i \in 1..Len(prefix) : s[i] = prefix[i]

\* variant: the character at index n - 1 is kept
substringOneEarly(s, n) == IF n >= Len(s) THEN <<>> ELSE SubSeq(s, n, Len(s))

\* String.prototype.substring(n)
substring(s, n) == IF n >= Len(s) THEN <<>> ELSE SubSeq(s, n + 1, Len(s))

\* String.prototype.split(sep) for a one-character separator
RECURSIVE split(_, _)
split(s, sep) ==
    IF \A i \in 1..Len(s) : s[i] # sep
    THEN << s >>
    ELSE LET k == CHOOSE i \in 1..Len(s) :
                      s[i] = sep /\ \A j \in 1..(i - 1) : s[j] # sep
         IN  << SubSeq(s, 1, k - 1) >> \o split(SubSeq(s, k + 1, Len(s)), sep)

\* Array.prototype.find with the predicate p => p.startsWith(prefix):
\* the one-element sequence of the first match, <<>> for undefined
findStartsWith(parts, prefix) ==
    IF \A i \in 1..Len(parts) : ~startsWith(parts[i], prefix)
    THEN <<>>
    ELSE LET k == CHOOSE i \in 1..Len(parts) :
                      /\ startsWith(parts[i], prefix)
                      /\ \A j \in 1..(i - 1) : ~startsWith(parts[j], prefix)
         IN  << parts[k] >>

\* String.prototype.trim (blanks only)
RECURSIVE trim(_)
trim(s) ==
    IF s = <<>> THEN s
    ELSE IF Head(s) = " " THEN trim(Tail(s))
    ELSE IF s[Len(s)] = " " THEN trim(SubSeq(s, 1, Len(s) - 1))
    ELSE s

(***************************************************************************)
(* Hex encoding and decoding.                                              *)
(***************************************************************************)
HexDigits == << "0", "1", "2", "3", "4", "5", "6", "7",
                "8", "9", "a", "b", "c", "d", "e", "f" >>

\* variant: a character that is no hex digit decodes as 0
unhexLenient(c) ==
    IF \E i \in 1..16 : HexDigits[i] = c
    THEN (CHOOSE i \in 1..16 : HexDigits[i] = c) - 1
    ELSE CASE c = "A" -> 10 [] c = "B" -> 11 [] c = "C" -> 12
           [] c = "D" -> 13 [] c = "E" -> 14 [] c = "F" -> 15
           [] OTHER -> 0

\* value of a hex digit in either letter-case, -1 for any other character
unhex(c) ==
    IF \E i \in 1..16 : HexDigits[i] = c
    THEN (CHOOSE i \in 1..16 : HexDigits[i] = c) - 1
    ELSE CASE c = "A" -> 10 [] c = "B" -> 11 [] c = "C" -> 12
           [] c = "D" -> 13 [] c = "E" -> 14 [] c = "F" -> 15
           [] OTHER -> -1

\* Buffer.from(s, "hex"): decodes pairs of hex digits and stops at the
\* first pair that is not two hex digits; a trailing odd digit is dropped
RECURSIVE BufferFromHex(_)
BufferFromHex(s) ==
    IF Len(s) < 2 THEN <<>>
    ELSE IF unhex(s[1]) = -1 \/ unhex(s[2]) = -1 THEN <<>>
    ELSE << 16 * unhex(s[1]) + unhex(s[2]) >> \o BufferFromHex(SubSeq(s, 3, Len(s)))

\* hmac.digest("hex"): lower-case hex of a byte sequence
RECURSIVE digestHex(_)
digestHex(bytes) ==
    IF bytes = <<>> THEN <<>>
    ELSE << HexDigits[(bytes[1] \div 16) + 1], HexDigits[(bytes[1] % 16) + 1] >>
         \o digestHex(Tail(bytes))

(***************************************************************************)
(* crypto.createHmac("sha256", key).update(msg): SHA-256 is replaced by a  *)
(* keyed checksum of DigestLen bytes that depends on every character of    *)
(* the key and of the message and on its position.                         *)
(***************************************************************************)
RECURSIVE WeightedSum(_, _)
WeightedSum(s, k) ==
    IF s = <<>> THEN 0 ELSE (k * CharCode(Head(s))) + WeightedSum(Tail(s), k + 1)

createHmac(key, msg) ==
    LET h == (251 * (WeightedSum(msg, 1) + 31 * WeightedSum(key, 7))) % 65536
    IN  << h \div 256, h % 256 >>

\* crypto.timingSafeEqual on two buffers of the same length
timingSafeEqual(a, b) == \A i \in 1..Len(a) : a[i] = b[i]

\* variant: a header without one of the two fields is let through
verifyCalendlySignatureFailOpen(payload, signatureHeader, signingKey) ==
    IF signatureHeader = <<>> \/ signingKey = <<>>
    THEN FALSE
    ELSE LET parts == split(signatureHeader, ",")
             timestampPart == findStartsWith(parts, << "t", "=" >>)
             signaturePart == findStartsWith(parts, << "v", "1", "=" >>)
         IN  IF timestampPart = <<>> \/ signaturePart = <<>>
             THEN TRUE
             ELSE LET timestamp == substring(timestampPart[1], 2)
                      signature == substring(signaturePart[1], 3)
                      signedPayload == timestamp \o << "." >> \o payload
                      expectedSignature == digestHex(createHmac(signingKey, signedPayload))
                      sigBuffer == BufferFromHex(signature)
                      expectedBuffer == BufferFromHex(expectedSignature)
                  IN  IF Len(sigBuffer) # Len(expectedBuffer)
                      THEN FALSE
                      ELSE timingSafeEqual(sigBuffer, expectedBuffer)

(***************************************************************************)
(* verifyCalendlySignature (route.js 54-96).  signatureHeader and          *)
(* signingKey are <<>> when missing (falsy).  None of the calls of the try *)
(* block throws on a string, so the catch branch returns nothing else.     *)
(***************************************************************************)
verifyCalendlySignature(payload, signatureHeader, signingKey) ==
    IF signatureHeader = <<>> \/ signingKey = <<>>
    THEN FALSE
    ELSE LET parts == split(signatureHeader, ",")
             timestampPart == findStartsWith(parts, << "t", "=" >>)
             signaturePart == findStartsWith(parts, << "v", "1", "=" >>)
         IN  IF timestampPart = <<>> \/ signaturePart = <<>>
             THEN FALSE
             ELSE LET timestamp == substring(timestampPart[1], 2)
                      signature == substring(signaturePart[1], 3)
                      signedPayload == timestamp \o << "." >> \o payload
                      expectedSignature == digestHex(createHmac(signingKey, signedPayload))
                      sigBuffer == BufferFromHex(signature)
                      expectedBuffer == BufferFromHex(expectedSignature)
                  IN  IF Len(sigBuffer) # Len(expectedBuffer)
                      THEN FALSE
                      ELSE timingSafeEqual(sigBuffer, expectedBuffer)

(***************************************************************************)
(* Notifications.  A raw body is a text; the texts of the model are        *)
(* abbreviated to one letter each, and JSONparse maps a text to the        *)
(* document it is the JSON of.  The documents follow the payload of a      *)
(* Calendly notification as extractEventDetails reads it.                  *)
(***************************************************************************)
EventId == "evt1"

Invitee == [email |-> "Guest@Client.example"]

Membership(email) ==
    [user |-> "https://api.calendly.com/users/U1", user_email |-> email]

\* a scheduled_event with one host membership and the event id at the main path
ScheduledEvent(hostEmail) ==
    [event_memberships |-> << Membership(hostEmail) >>,
     external_id |-> EventId,
     name |-> "Intro call",
     uri |-> "https://api.calendly.com/scheduled_events/S1",
     start_time |-> "2025-01-01T10:00:00Z",
     end_time |-> "2025-01-01T10:30:00Z"]

\* the same without any external id
ScheduledEventNoId(hostEmail) ==
    [event_memberships |-> << Membership(hostEmail) >>,
     name |-> "Intro call",
     uri |-> "https://api.calendly.com/scheduled_events/S1"]

Notification(eventType, scheduledEvent) ==
    [event |-> eventType,
     payload |-> [scheduled_event |-> scheduledEvent, invitee |-> Invitee]]

\* the catalogue of raw bodies: text and, when the text is JSON, its document
Bodies ==
    << [text |-> << "g" >>],
       [text |-> << "h" >>, json |-> [null |-> TRUE]],
       [text |-> << "i" >>,
        json |-> Notification("invitee.canceled", ScheduledEvent("christina@magicalteams.com"))],
       [text |-> << "j" >>,
        json |-> [payload |-> [scheduled_event |-> ScheduledEvent("cara@magicalteams.com"),
                               invitee |-> Invitee]]],
       [text |-> << "l" >>, json |-> [event |-> "invitee.created"]],
       [text |-> << "m" >>,
        json |-> Notification("invitee.created", ScheduledEvent("christina@magicalteams.com"))],
       [text |-> << "n" >>,
        json |-> Notification("invitee.created", ScheduledEvent("Christina@MagicalTeams.com"))],
       [text |-> << "o" >>,
        json |-> Notification("invitee.created", ScheduledEvent("Mallory@Evil.example"))],
       [text |-> << "p" >>,
        json |-> Notification("invitee.created",
                     [event_memberships |-> << >>, external_id |-> EventId])],
       [text |-> << "q" >>,
        json |-> Notification("invitee.created", ScheduledEventNoId("christina@magicalteams.com"))],
       [text |-> << "r" >>,
        json |-> Notification("invitee.created",
                     [event_memberships |-> << Membership("christina@magicalteams.com") >>,
                      external_id |-> "",
                      calendar_event |-> [kind |-> "google", external_id |-> EventId],
                      name |-> "Intro call"])],
       [text |-> << "s" >>,
        json |-> Notification("invitee.created",
                     [event_memberships |->
                          << [user_email |-> "christina@magicalteams.com"],
                             Membership("mallory@evil.example") >>,
                      external_id |-> EventId])],
       [text |-> << "u" >>, json |-> [event |-> "invitee.created", payload |-> [created_at |-> "now"]]],
       [text |-> << "w" >>,
        json |-> Notification("invitee.created", ScheduledEventNoId("Mallory@Evil.example"))] >>

RawBodies == { Bodies[k].text : k \in 1..Len(Bodies) }

\* variant: a text that is no JSON parses to the empty object
JSONparseNeverThrows(rawBody) ==
    LET b == Bodies[CHOOSE k \in 1..Len(Bodies) : Bodies[k].text = rawBody]
    IN  IF "json" \in DOMAIN b THEN << b.json >> ELSE << [empty |-> TRUE] >>

\* JSON.parse(rawBody): <<document>>, or <<>> when it throws a SyntaxError
JSONparse(rawBody) ==
    LET b == Bodies[CHOOSE k \in 1..Len(Bodies) : Bodies[k].text = rawBody]
    IN  IF "json" \in DOMAIN b THEN << b.json >> ELSE << >>

\* the object {}: a record needs a field, this one is never read
EmptyObject == [empty |-> TRUE]

\* variant: the identifier is read at scheduled_event.external_id only
extractEventDetailsOnePath(payload) ==
    LET scheduledEvent ==
            IF "scheduled_event" \in DOMAIN payload THEN payload.scheduled_event
            ELSE EmptyObject
        eventMemberships ==
            IF "event_memberships" \in DOMAIN scheduledEvent
            THEN scheduledEvent.event_memberships ELSE << >>
        invitees == IF "invitee" \in DOMAIN payload THEN payload.invitee ELSE EmptyObject
        \* eventMemberships.find((m) => m.user)
        hostMembership ==
            IF \A k \in 1..Len(eventMemberships) : ~Truthy(eventMemberships[k], "user")
            THEN << >>
            ELSE << eventMemberships[CHOOSE k \in 1..Len(eventMemberships) :
                        /\ Truthy(eventMemberships[k], "user")
                        /\ \A j \in 1..(k - 1) : ~Truthy(eventMemberships[j], "user")] >>
        hostEmail ==
            IF hostMembership # << >> /\ Truthy(hostMembership[1], "user_email")
            THEN toLowerCase(hostMembership[1].user_email) ELSE ""
        inviteeEmail ==
            IF Truthy(invitees, "email") THEN toLowerCase(invitees.email) ELSE ""
        externalId1 ==
            IF Truthy(scheduledEvent, "external_id") THEN scheduledEvent.external_id ELSE ""
        externalId == externalId1
    IN  [hostEmail |-> hostEmail,
         inviteeEmail |-> inviteeEmail,
         externalId |-> externalId,
         calendarId |-> hostEmail,
         eventName |-> IF Truthy(scheduledEvent, "name") THEN scheduledEvent.name
                       ELSE "Untitled Event",
         eventUri |-> IF Truthy(scheduledEvent, "uri") THEN scheduledEvent.uri ELSE "",
         startTime |-> Prop(scheduledEvent, "start_time"),
         endTime |-> Prop(scheduledEvent, "end_time"),
         _rawScheduledEvent |-> scheduledEvent]

(***************************************************************************)
(* extractEventDetails (route.js 135-188), for a payload that is an object *)
(***************************************************************************)
extractEventDetails(payload) ==
    LET scheduledEvent ==
            IF "scheduled_event" \in DOMAIN payload THEN payload.scheduled_event
            ELSE EmptyObject
        eventMemberships ==
            IF "event_memberships" \in DOMAIN scheduledEvent
            THEN scheduledEvent.event_memberships ELSE << >>
        invitees == IF "invitee" \in DOMAIN payload THEN payload.invitee ELSE EmptyObject
        \* eventMemberships.find((m) => m.user)
        hostMembership ==
            IF \A k \in 1..Len(eventMemberships) : ~Truthy(eventMemberships[k], "user")
            THEN << >>
            ELSE << eventMemberships[CHOOSE k \in 1..Len(eventMemberships) :
                        /\ Truthy(eventMemberships[k], "user")
                        /\ \A j \in 1..(k - 1) : ~Truthy(eventMemberships[j], "user")] >>
        hostEmail ==
            IF hostMembership # << >> /\ Truthy(hostMembership[1], "user_email")
            THEN toLowerCase(hostMembership[1].user_email) ELSE ""
        inviteeEmail ==
            IF Truthy(invitees, "email") THEN toLowerCase(invitees.email) ELSE ""
        externalId1 ==
            IF Truthy(scheduledEvent, "external_id") THEN scheduledEvent.external_id ELSE ""
        externalId ==
            IF externalId1 = "" /\ "calendar_event" \in DOMAIN scheduledEvent
            THEN IF Truthy(scheduledEvent.calendar_event, "external_id")
                 THEN scheduledEvent.calendar_event.external_id ELSE ""
            ELSE externalId1
    IN  [hostEmail |-> hostEmail,
         inviteeEmail |-> inviteeEmail,
         externalId |-> externalId,
         calendarId |-> hostEmail,
         eventName |-> IF Truthy(scheduledEvent, "name") THEN scheduledEvent.name
                       ELSE "Untitled Event",
         eventUri |-> IF Truthy(scheduledEvent, "uri") THEN scheduledEvent.uri ELSE "",
         startTime |-> Prop(scheduledEvent, "start_time"),
         endTime |-> Prop(scheduledEvent, "end_time"),
         _rawScheduledEvent |-> scheduledEvent]

(***************************************************************************)
(* The process environment and the requests.                               *)
(***************************************************************************)
\* the key Calendly signs with, and a key somebody else signs with
CalendlyKey == << "k" >>
ForgedKey == << "z" >>

\* process.env: an unset variable is an absent field
Environments ==
    { [GOOGLE_SERVICE_ACCOUNT_KEY |-> "{client_email, private_key}"],
      [CALENDLY_WEBHOOK_SIGNING_KEY |-> CalendlyKey],
      [CALENDLY_WEBHOOK_SIGNING_KEY |-> CalendlyKey,
       GOOGLE_SERVICE_ACCOUNT_KEY |-> "{client_email, private_key}"],
      [CALENDLY_WEBHOOK_SIGNING_KEY |-> << " ", "k", " " >>,
       GOOGLE_SERVICE_ACCOUNT_KEY |-> "{client_email, private_key}",
       NOTETAKER_EMAIL |-> "Notes@MagicalTeams.com"],
      [CALENDLY_WEBHOOK_SIGNING_KEY |-> << " " >>,
       GOOGLE_SERVICE_ACCOUNT_KEY |-> "{client_email, private_key}",
       NOTETAKER_EMAIL |-> "Notes@MagicalTeams.com"] }

\* the header a sender holding `key` attaches to `rawBody` at time `t`
SignedHeader(rawBody, key, t) ==
    << "t", "=" >> \o t \o << ",", "v", "1", "=" >>
       \o digestHex(createHmac(key, t \o << "." >> \o rawBody))

\* the values of the Calendly-Webhook-Signature header of a request with
\* this body; <<>> is a request without the header
SignatureHeaders(rawBody) ==
    { << >>,
      SignedHeader(rawBody, CalendlyKey, << "1" >>),
      SignedHeader(rawBody, ForgedKey, << "1" >>),
      << "t", "=", "1" >> }

(***************************************************************************)
(* The remote calendar: one event of one calendar, which Calendly's own    *)
(* sync makes visible at some time.  An attendee is a record; an event     *)
(* without attendees has no attendees field.                               *)
(***************************************************************************)
RemoteCalendarId == "christina@magicalteams.com"

Guest == [email |-> "guest@client.example", responseStatus |-> "accepted"]
Organizer == [email |-> "christina@magicalteams.com", responseStatus |-> "accepted",
              organizer |-> TRUE]

InitialEvents ==
    { [id |-> EventId],
      [id |-> EventId, attendees |-> << Organizer, Guest >>],
      [id |-> EventId, attendees |-> << Guest, Organizer, Guest, [displayName |-> "Room 4"] >>],
      [id |-> EventId, attendees |->
          << Guest, [email |-> "notetaker@magicalteams.com", responseStatus |-> "accepted"] >>],
      [id |-> EventId, attendees |->
          << [email |-> "NOTETAKER@MAGICALTEAMS.COM", responseStatus |-> "needsAction"],
             Guest >>],
      [id |-> EventId, attendees |->
          << Guest, [email |-> "NOTES@magicalteams.com", responseStatus |-> "declined"] >>] }

\* what a failing call of the calendar client throws
NotFoundError ==
    [name |-> "GaxiosError", message |-> "Not Found",
     code |-> [num |-> 404], errors |-> "[notFound]"]

ProviderErrors ==
    { NotFoundError,
      [name |-> "GaxiosError", message |-> "Forbidden",
       code |-> [num |-> 403], errors |-> "[forbidden]"],
      [name |-> "GaxiosError", message |-> "Rate Limit Exceeded",
       code |-> [num |-> 429], errors |-> "[rateLimitExceeded]"],
      [name |-> "GaxiosError", message |-> "Backend Error",
       code |-> [num |-> 500], errors |-> "[backendError]"],
      [name |-> "FetchError", message |-> "socket hang up",
       code |-> [str |-> "ECONNRESET"]],
      [name |-> "Error", message |-> "invalid_grant"] }

(***************************************************************************)
(* State.                                                                  *)
(***************************************************************************)
VARIABLES
    env,        \* process.env of the deployment
    remote,     \* the remote calendar: [visible, event]
    inv,        \* the invocations of POST, by slot
    prev,       \* when the notification in hand is a re-delivery: how the
                \* delivery before it ended; Nil otherwise
    delivered   \* number of notifications delivered so far

vars == << env, remote, inv, prev, delivered >>

Invs == 1..NumInvocations

\* an invocation slot before POST is called
IdleInv ==
    [pc |-> "idle",
     request |-> Nil,            \* [rawBody, signatureHeader]
     isValid |-> << >>,          \* <<result>> once verifyCalendlySignature was called
     eventDetails |-> Nil,
     existingAttendees |-> << >>,
     updatedAttendees |-> << >>,
     sleeps |-> << >>,           \* the durations of the sleeps begun
     calls |-> << >>,            \* the calendar calls issued, in order
     results |-> << >>,          \* what each of them was answered with
     outcome |-> "none",         \* "response" or "uncaught" once it has ended
     response |-> Nil,           \* [status, body]
     thrown |-> Nil]             \* the exception that left POST

\* NOTETAKER_EMAIL (route.js 23-24)
NOTETAKER_EMAIL(e) ==
    IF Truthy(e, "NOTETAKER_EMAIL") THEN e.NOTETAKER_EMAIL ELSE DEFAULT_NOTETAKER_EMAIL

(***************************************************************************)
(* NextResponse.json(body, {status}) inside the try block, where status is *)
(* a literal (or the default 200): the invocation ends with that response. *)
(***************************************************************************)
Reply(v, status, body) ==
    [v EXCEPT !.pc = "done", !.outcome = "response",
              !.response = [status |-> status, body |-> body]]

\* the Response constructor accepts a status that is a number in 200..599,
\* and a body only when the status is not a null-body status
NullBodyStatus == {204, 205, 304}
ResponseStatusOk(status) ==
    /\ "num" \in DOMAIN status
    /\ status.num >= 200 /\ status.num <= 599
    /\ status.num \notin NullBodyStatus

(***************************************************************************)
(* The catch block of POST (route.js 385-398).  NextResponse.json throws   *)
(* when it is given a status it does not accept, and that exception is     *)
(* thrown inside the catch block: it leaves POST.                          *)
(***************************************************************************)
\* variant: every failure is reported as 500
statusCodeAlways500(error) == [num |-> 500]

\* error.code || 500 (route.js 389)
statusCodeOf(error) ==
    IF "code" \in DOMAIN error /\ error.code # [num |-> 0] /\ error.code # [str |-> ""]
    THEN error.code ELSE [num |-> 500]

CatchBlock(v, error) ==
    LET statusCode == statusCodeOf(error)
        body == [error |-> "Failed to process webhook",
                 message |-> error.message,
                 details |-> IF Truthy(error, "errors") THEN error.errors ELSE "null"]
    IN  IF ResponseStatusOk(statusCode)
        THEN Reply(v, statusCode.num, body)
        ELSE [v EXCEPT !.pc = "done", !.outcome = "uncaught",
                       !.thrown = [name |-> "RangeError",
                                   message |-> "init.status must be in the range of 200 to 599"]]

\* process.env.CALENDLY_WEBHOOK_SIGNING_KEY?.trim() (route.js 215); <<>> when unset
signingKeyOf(e) ==
    IF "CALENDLY_WEBHOOK_SIGNING_KEY" \in DOMAIN e
    THEN trim(e.CALENDLY_WEBHOOK_SIGNING_KEY) ELSE << >>

\* variant: the verifier is called whether or not a key is configured
signatureRejectedIgnoresKey(rawBody, signatureHeader, signingKey) ==
    /\ signatureHeader # << >>
    /\ ~verifyCalendlySignature(rawBody, signatureHeader, signingKey)

\* variant: a request without the signature header is rejected
signatureRejectedMissingHeader(rawBody, signatureHeader, signingKey) ==
    /\ signingKey # << >> /\ Len(signingKey) > 0
    /\ \/ signatureHeader = << >>
       \/ ~verifyCalendlySignature(rawBody, signatureHeader, signingKey)

\* variant: the result of the verification is read the wrong way round
signatureRejectedInverted(rawBody, signatureHeader, signingKey) ==
    /\ signingKey # << >> /\ Len(signingKey) > 0
    /\ signatureHeader # << >>
    /\ verifyCalendlySignature(rawBody, signatureHeader, signingKey)

\* the signature step (route.js 218-242): TRUE when it answers 401
signatureRejected(rawBody, signatureHeader, signingKey) ==
    /\ signingKey # << >> /\ Len(signingKey) > 0
    /\ signatureHeader # << >>
    /\ ~verifyCalendlySignature(rawBody, signatureHeader, signingKey)

\* variant: every invitee.* event is taken as actionable
isActionableAnyInvitee(eventType) == eventType \in {"invitee.created", "invitee.canceled"}

\* the event-type filter (route.js 246)
isActionable(eventType) == eventType = "invitee.created"

\* variant: any host that has an email passes
isAuthorizedHostAnyEmail(hostEmail) == hostEmail # ""

\* the host check (route.js 266)
isAuthorizedHost(hostEmail) == includes(AUTHORIZED_HOSTS, hostEmail)

\* variant: the check looks at the event uri instead of the external id
missingExternalIdChecksUri(eventDetails) == eventDetails.eventUri = ""

\* the external-id check (route.js 280)
missingExternalId(eventDetails) == eventDetails.externalId = ""

\* variant: the promise resolves at once, no timer is started
sleepResolvesAtOnce(v, ms) == [v EXCEPT !.pc = "sleeping"]

\* await sleep(ms): the invocation is suspended until the timer fires (route.js 41)
sleep(v, ms) == [v EXCEPT !.pc = "sleeping", !.sleeps = Append(@, ms)]

\* variant: the event-type filter is applied before the signature step
PostStartFilterFirst(req, e) ==
    LET v0 == [IdleInv EXCEPT !.request = req]
        parsed == JSONparse(req.rawBody)
    IN  IF parsed = << >>
        THEN CatchBlock(v0, [name |-> "SyntaxError", message |-> "Unexpected token"])
        ELSE
        LET payload == parsed[1]
            signingKey == signingKeyOf(e)
        IN  IF "null" \in DOMAIN payload
            THEN CatchBlock(v0, [name |-> "TypeError",
                                 message |-> "Cannot read properties of null"])
            ELSE IF ~isActionable(Prop(payload, "event"))
            THEN Reply(v0, 200, [message |-> << "Event type", Prop(payload, "event"), "ignored" >>,
                                 processed |-> FALSE])
            ELSE
            LET v == IF signingKey # << >> /\ req.signatureHeader # << >>
                     THEN [v0 EXCEPT !.isValid =
                              << verifyCalendlySignature(req.rawBody, req.signatureHeader,
                                                         signingKey) >>]
                     ELSE v0
            IN  IF signatureRejected(req.rawBody, req.signatureHeader, signingKey)
                THEN Reply(v, 401, [error |-> "Invalid signature"])
                ELSE IF "payload" \notin DOMAIN payload
                THEN CatchBlock(v, [name |-> "TypeError",
                                    message |-> "Cannot convert undefined or null to object"])
                ELSE
                LET eventDetails == extractEventDetails(payload.payload)
                    w == [v EXCEPT !.eventDetails = eventDetails]
                IN  IF ~isAuthorizedHost(eventDetails.hostEmail)
                    THEN Reply(w, 200, [message |-> "Host not in authorized list",
                                        processed |-> FALSE,
                                        hostEmail |-> eventDetails.hostEmail])
                    ELSE IF missingExternalId(eventDetails)
                    THEN Reply(w, 400, [error |-> "Missing external_id in payload"])
                    ELSE sleep(w, SYNC_DELAY_MS)

(***************************************************************************)
(* POST from its entry to `await sleep(SYNC_DELAY_MS)` (route.js 204-294)  *)
(***************************************************************************)
PostStart(req, e) ==
    LET v0 == [IdleInv EXCEPT !.request = req]
        parsed == JSONparse(req.rawBody)
    IN  IF parsed = << >>
        THEN CatchBlock(v0, [name |-> "SyntaxError", message |-> "Unexpected token"])
        ELSE
        LET payload == parsed[1]
            signatureHeader == req.signatureHeader
            signingKey == signingKeyOf(e)
            \* const isValid (route.js 220), assigned when the verifier is called
            v == IF signingKey # << >> /\ signatureHeader # << >>
                 THEN [v0 EXCEPT !.isValid =
                          << verifyCalendlySignature(req.rawBody, signatureHeader, signingKey) >>]
                 ELSE v0
        IN  IF signatureRejected(req.rawBody, signatureHeader, signingKey)
            THEN Reply(v, 401, [error |-> "Invalid signature"])
            ELSE IF "null" \in DOMAIN payload
            THEN CatchBlock(v, [name |-> "TypeError",
                                message |-> "Cannot read properties of null"])
            ELSE IF ~isActionable(Prop(payload, "event"))
            THEN Reply(v, 200, [message |-> << "Event type", Prop(payload, "event"), "ignored" >>,
                                processed |-> FALSE])
            ELSE IF "payload" \notin DOMAIN payload
            THEN CatchBlock(v, [name |-> "TypeError",
                                message |-> "Cannot convert undefined or null to object"])
            ELSE
            LET eventDetails == extractEventDetails(payload.payload)
                w == [v EXCEPT !.eventDetails = eventDetails]
            IN  IF ~isAuthorizedHost(eventDetails.hostEmail)
                THEN Reply(w, 200, [message |-> "Host not in authorized list",
                                    processed |-> FALSE,
                                    hostEmail |-> eventDetails.hostEmail])
                ELSE IF missingExternalId(eventDetails)
                THEN Reply(w, 400, [error |-> "Missing external_id in payload"])
                ELSE sleep(w, SYNC_DELAY_MS)

(***************************************************************************)
(* POST from the end of the sleep to `await calendar.events.get`           *)
(* (route.js 296-309); getCalendarClient (104-127) throws when the service *)
(* account key is not set.                                                 *)
(***************************************************************************)
PostAfterSleep(v, e) ==
    IF ~Truthy(e, "GOOGLE_SERVICE_ACCOUNT_KEY")
    THEN CatchBlock(v, [name |-> "Error",
                        message |-> "GOOGLE_SERVICE_ACCOUNT_KEY environment variable is not set"])
    ELSE [v EXCEPT !.pc = "awaitGet",
                   !.calls = Append(@, [op |-> "events.get",
                                        calendarId |-> v.eventDetails.calendarId,
                                        eventId |-> v.eventDetails.externalId])]

\* variant: the configured address is not lower-cased before the comparison
notetakerExistsRightSideAsIs(existingAttendees, e) ==
    \E k \in 1..Len(existingAttendees) :
        /\ "email" \in DOMAIN existingAttendees[k]
        /\ toLowerCase(existingAttendees[k].email) = NOTETAKER_EMAIL(e)

\* variant: the attendee's address is not lower-cased before the comparison
notetakerExistsLeftSideAsIs(existingAttendees, e) ==
    \E k \in 1..Len(existingAttendees) :
        /\ "email" \in DOMAIN existingAttendees[k]
        /\ existingAttendees[k].email = toLowerCase(NOTETAKER_EMAIL(e))

\* existingAttendees.some((a) => a.email?.toLowerCase() === NOTETAKER_EMAIL.toLowerCase())
notetakerExists(existingAttendees, e) ==
    \E k \in 1..Len(existingAttendees) :
        /\ "email" \in DOMAIN existingAttendees[k]
        /\ toLowerCase(existingAttendees[k].email) = toLowerCase(NOTETAKER_EMAIL(e))

\* attendees.map((a) => a.email)
mapEmail(attendees) == [k \in 1..Len(attendees) |-> Prop(attendees[k], "email")]

\* variant: the notetaker is entered as having accepted
NotetakerEntryAccepted(e) == [email |-> NOTETAKER_EMAIL(e), responseStatus |-> "accepted"]

\* the entry the handler adds (route.js 348-351)
NotetakerEntry(e) == [email |-> NOTETAKER_EMAIL(e), responseStatus |-> "needsAction"]

\* variant: the new entry is put first
buildUpdatedAttendeesPrepend(existingAttendees, e) ==
    << NotetakerEntry(e) >> \o existingAttendees

\* [...existingAttendees, {...}] (route.js 346-352)
buildUpdatedAttendees(existingAttendees, e) == Append(existingAttendees, NotetakerEntry(e))

\* variant: the code is compared with the string "404"
isNotFoundString(error) == "code" \in DOMAIN error /\ error.code = [str |-> "404"]

\* error.code === 404 (route.js 316)
isNotFound(error) == "code" \in DOMAIN error /\ error.code = [num |-> 404]

(***************************************************************************)
(* POST from the answer of events.get to `await calendar.events.patch`     *)
(* (route.js 310-367).  result is [data |-> event] or [error |-> thrown].  *)
(***************************************************************************)
PostAfterGet(v0, e, result) ==
    LET v == [v0 EXCEPT !.results = Append(@, result)] IN
    IF "error" \in DOMAIN result
    THEN IF isNotFound(result.error)
         THEN Reply(v, 404,
                    [error |-> "Event not found in Google Calendar - may not have synced yet",
                     externalId |-> v.eventDetails.externalId])
         ELSE CatchBlock(v, result.error)
    ELSE
    LET existingEvent == result.data
        existingAttendees == IF "attendees" \in DOMAIN existingEvent
                             THEN existingEvent.attendees ELSE << >>
    IN  IF notetakerExists(existingAttendees, e)
        THEN Reply([v EXCEPT !.existingAttendees = existingAttendees], 200,
                   [message |-> "Notetaker already exists as attendee",
                    processed |-> FALSE,
                    existingAttendees |-> mapEmail(existingAttendees)])
        ELSE
        LET updatedAttendees == buildUpdatedAttendees(existingAttendees, e)
        IN  [v EXCEPT !.pc = "awaitPatch",
                      !.existingAttendees = existingAttendees,
                      !.updatedAttendees = updatedAttendees,
                      !.calls = Append(@, [op |-> "events.patch",
                                           calendarId |-> v.eventDetails.calendarId,
                                           eventId |-> v.eventDetails.externalId,
                                           sendUpdates |-> "all",
                                           requestBody |-> [attendees |-> updatedAttendees]])]

\* variant: the answer of events.patch is not looked at
PostAfterPatchSwallowsError(v0, result) ==
    LET v == [v0 EXCEPT !.results = Append(@, result)] IN
    Reply(v, 200,
          [success |-> TRUE,
           message |-> "Notetaker added successfully",
           eventId |-> v.eventDetails.externalId,
           eventName |-> v.eventDetails.eventName,
           attendees |-> mapEmail(v.updatedAttendees),
           processingTime |-> "<duration>ms"])

\* variant: a failed events.patch is issued once more before giving up
PostAfterPatchRetries(v0, result) ==
    LET v == [v0 EXCEPT !.results = Append(@, result)] IN
    IF "error" \in DOMAIN result
    THEN IF Len(v0.calls) < 3
         THEN [v EXCEPT !.calls = Append(@, v0.calls[Len(v0.calls)])]
         ELSE CatchBlock(v, result.error)
    ELSE Reply(v, 200,
               [success |-> TRUE,
                message |-> "Notetaker added successfully",
                eventId |-> v.eventDetails.externalId,
                eventName |-> v.eventDetails.eventName,
                attendees |-> mapEmail(v.updatedAttendees),
                processingTime |-> "<duration>ms"])

(***************************************************************************)
(* POST after the answer of events.patch (route.js 368-384)                *)
(***************************************************************************)
PostAfterPatch(v0, result) ==
    LET v == [v0 EXCEPT !.results = Append(@, result)] IN
    IF "error" \in DOMAIN result
    THEN CatchBlock(v, result.error)
    ELSE Reply(v, 200,
               [success |-> TRUE,
                message |-> "Notetaker added successfully",
                eventId |-> v.eventDetails.externalId,
                eventName |-> v.eventDetails.eventName,
                attendees |-> mapEmail(v.updatedAttendees),
                processingTime |-> "<duration>ms"])

(***************************************************************************)
(* The calendar provider's side of the two calls.                          *)
(***************************************************************************)
EventFound(r, call) ==
    /\ r.visible
    /\ call.calendarId = RemoteCalendarId
    /\ call.eventId = r.event.id

\* events.get: the event resource as it is stored
EventsGet(r, call) == [data |-> r.event]

\* variant: the entries sent that are not stored yet are added to the stored list
EventsPatchMerges(r, call) ==
    LET stored == IF "attendees" \in DOMAIN r.event THEN r.event.attendees ELSE << >>
        sent == call.requestBody.attendees
    IN  [r EXCEPT !.event = [id |-> r.event.id,
                             attendees |-> stored \o SubSeq(sent, Len(sent), Len(sent))]]

\* events.patch with an attendees field: the list replaces the stored one
EventsPatch(r, call) ==
    [r EXCEPT !.event = [id |-> r.event.id, attendees |-> call.requestBody.attendees]]

LastCall(v) == v.calls[Len(v.calls)]

(***************************************************************************)
(* Actions.                                                                *)
(***************************************************************************)
Init ==
    /\ env \in Environments
    /\ remote \in [visible : BOOLEAN, event : InitialEvents]
    /\ inv = [i \in Invs |-> IdleInv]
    /\ prev = Nil
    /\ delivered = 0

\* no other invocation exists or is in progress
Alone(i) == \A j \in Invs \ {i} : inv[j].pc = "idle"

\* a notification arrives and POST runs up to its first suspension
Receive(i, rawBody, signatureHeader) ==
    /\ inv[i].pc \in {"idle", "done"}
    /\ delivered < MaxDeliveries
    /\ inv' = [inv EXCEPT ![i] = PostStart([rawBody |-> rawBody,
                                            signatureHeader |-> signatureHeader], env)]
    /\ prev' = Nil
    /\ delivered' = delivered + 1
    /\ UNCHANGED << env, remote >>

\* the notification an invocation has handled is delivered once more
Redeliver(i) ==
    /\ inv[i].pc = "done"
    /\ delivered < MaxDeliveries
    /\ inv' = [inv EXCEPT ![i] = PostStart(inv[i].request, env)]
    /\ prev' = [request |-> inv[i].request,
                outcome |-> inv[i].outcome,
                response |-> inv[i].response,
                calls |-> inv[i].calls,
                remote |-> remote]
    /\ delivered' = delivered + 1
    /\ UNCHANGED << env, remote >>

\* the timer of sleep() fires
SleepDone(i) ==
    /\ inv[i].pc = "sleeping"
    /\ inv' = [inv EXCEPT ![i] = PostAfterSleep(inv[i], env)]
    /\ UNCHANGED << env, remote, prev, delivered >>

\* events.get is answered with the event
GetSucceeds(i) ==
    /\ inv[i].pc = "awaitGet"
    /\ EventFound(remote, LastCall(inv[i]))
    /\ inv' = [inv EXCEPT ![i] = PostAfterGet(inv[i], env, EventsGet(remote, LastCall(inv[i])))]
    /\ UNCHANGED << env, remote, prev, delivered >>

\* events.get fails: the event is not visible (yet), or the provider fails
GetFails(i, error) ==
    /\ inv[i].pc = "awaitGet"
    /\ inv' = [inv EXCEPT ![i] = PostAfterGet(inv[i], env, [error |-> error])]
    /\ UNCHANGED << env, remote, prev, delivered >>

\* events.patch is applied and answered
PatchSucceeds(i) ==
    /\ inv[i].pc = "awaitPatch"
    /\ EventFound(remote, LastCall(inv[i]))
    /\ remote' = EventsPatch(remote, LastCall(inv[i]))
    /\ inv' = [inv EXCEPT ![i] = PostAfterPatch(inv[i], [data |-> remote'.event])]
    /\ UNCHANGED << env, prev, delivered >>

\* events.patch fails and changes nothing
PatchFails(i, error) ==
    /\ inv[i].pc = "awaitPatch"
    /\ inv' = [inv EXCEPT ![i] = PostAfterPatch(inv[i], [error |-> error])]
    /\ UNCHANGED << env, remote, prev, delivered >>

\* Calendly's own sync makes the event visible in the calendar
CalendlySync ==
    /\ ~remote.visible
    /\ remote' = [remote EXCEPT !.visible = TRUE]
    /\ UNCHANGED << env, inv, prev, delivered >>

\* notifications handled one after the other
Next ==
    \/ \E i \in Invs, rawBody \in RawBodies :
           \E signatureHeader \in SignatureHeaders(rawBody) :
               Alone(i) /\ (\A j \in 1..(i - 1) : inv[j].pc # "idle")
                        /\ Receive(i, rawBody, signatureHeader)
    \/ \E i \in Invs : Alone(i) /\ Redeliver(i)
    \/ \E i \in Invs : SleepDone(i)
    \/ \E i \in Invs : GetSucceeds(i)
    \/ \E i \in Invs, error \in ProviderErrors : GetFails(i, error)
    \/ \E i \in Invs : PatchSucceeds(i)
    \/ \E i \in Invs, error \in ProviderErrors : PatchFails(i, error)
    \/ CalendlySync

Spec == Init /\ [][Next]_vars

(***************************************************************************)
(* Vocabulary of the properties.                                           *)
(***************************************************************************)
Started(v) == v.pc # "idle"
Ended(v) == v.pc = "done"

\* the number of calls of one operation an invocation has issued
CallCount(calls, op) == Cardinality({ k \in 1..Len(calls) : calls[k].op = op })

\* the invocation has made no call and has not begun the delay
NothingOutbound(v) == v.calls = << >> /\ v.sleeps = << >>

\* the invocation ended with a response of this status and these body fields
RespondedWith(v, status, fields) ==
    /\ Ended(v)
    /\ v.outcome = "response"
    /\ v.response.status = status
    /\ DOMAIN v.response.body = fields

\* the request body parsed to a notification object
IsNotification(v) ==
    /\ Started(v)
    /\ JSONparse(v.request.rawBody) # << >>
    /\ "null" \notin DOMAIN JSONparse(v.request.rawBody)[1]

NotificationOf(v) == JSONparse(v.request.rawBody)[1]

KeyConfigured ==
    /\ "CALENDLY_WEBHOOK_SIGNING_KEY" \in DOMAIN env
    /\ trim(env.CALENDLY_WEBHOOK_SIGNING_KEY) # << >>

\* a key is configured, the header is present and the verification fails
VerificationFails(v) ==
    /\ KeyConfigured
    /\ v.request.signatureHeader # << >>
    /\ ~verifyCalendlySignature(v.request.rawBody, v.request.signatureHeader,
                                trim(env.CALENDLY_WEBHOOK_SIGNING_KEY))

\* an invitee.created notification that came through the signature step and
\* whose payload the extractor can read
ReachesExtraction(v) ==
    /\ IsNotification(v)
    /\ ~VerificationFails(v)
    /\ Prop(NotificationOf(v), "event") = "invitee.created"
    /\ "payload" \in DOMAIN NotificationOf(v)

ExtractedHost(v) == extractEventDetails(NotificationOf(v).payload).hostEmail

\* the snapshot events.get returned, when it returned one
Fetched(v) ==
    /\ Len(v.results) >= 1
    /\ "data" \in DOMAIN v.results[1]

SnapshotAttendees(v) ==
    IF "attendees" \in DOMAIN v.results[1].data THEN v.results[1].data.attendees ELSE << >>

\* the target address is in the list, in whatever letter-case
HasTarget(attendees) ==
    \E k \in 1..Len(attendees) :
        /\ "email" \in DOMAIN attendees[k]
        /\ toLowerCase(attendees[k].email) = toLowerCase(NOTETAKER_EMAIL(env))

IsSuccessResponse(v) ==
    /\ v.outcome = "response"
    /\ "success" \in DOMAIN v.response.body
    /\ v.response.body.success = TRUE

AlreadyPresentFields == {"message", "processed", "existingAttendees"}

(***************************************************************************)
(* C1.  An invitee.created notification whose extracted host email is not  *)
(* one of the three authorized hosts is answered with status 200 and the   *)
(* body {message, processed: false, hostEmail}, and its invocation makes   *)
(* no calendar call (no events.get, no events.patch) in any of its states. *)
(***************************************************************************)
C1_UnauthorizedHostShortCircuits ==
    \A i \in Invs :
        (ReachesExtraction(inv[i]) /\ ~includes(AUTHORIZED_HOSTS, ExtractedHost(inv[i])))
        => /\ RespondedWith(inv[i], 200, {"message", "processed", "hostEmail"})
           /\ inv[i].response.body.processed = FALSE
           /\ inv[i].response.body.hostEmail = ExtractedHost(inv[i])
           /\ inv[i].calls = << >>

\* a host spelled in mixed case that is not authorized has been turned away
C1_Witness ==
    \E i \in Invs :
        /\ ReachesExtraction(inv[i])
        /\ ExtractedHost(inv[i]) = "mallory@evil.example"
        /\ inv[i].request.rawBody = << "o" >>
        /\ RespondedWith(inv[i], 200, {"message", "processed", "hostEmail"})

(***************************************************************************)
(* C2.  When a signing key is configured, the signature header is present  *)
(* and the verification of the (parsed) request fails, the invocation ends *)
(* with status 401 and the body {error}, without delay and without any     *)
(* calendar call.                                                          *)
(***************************************************************************)
C2_InvalidSignatureIs401 ==
    \A i \in Invs :
        (Started(inv[i]) /\ JSONparse(inv[i].request.rawBody) # << >>
                         /\ VerificationFails(inv[i]))
        => /\ RespondedWith(inv[i], 401, {"error"})
           /\ NothingOutbound(inv[i])

\* an eligible notification signed with another key has been answered 401
C2_Witness ==
    \E i \in Invs :
        /\ inv[i].request = [rawBody |-> << "m" >>,
                             signatureHeader |-> SignedHeader(<< "m" >>, ForgedKey, << "1" >>)]
        /\ KeyConfigured
        /\ RespondedWith(inv[i], 401, {"error"})

(***************************************************************************)
(* C3.  When a notification whose handling ended with success:true is      *)
(* delivered again, the first handling had issued exactly one              *)
(* events.patch, the second handling issues none, the remote event stays   *)
(* as the first handling left it, and once the second handling has fetched *)
(* the event it answers processed:false with the already-present body.     *)
(***************************************************************************)
C3_RedeliveryIsNoOp ==
    \A i \in Invs :
        (Started(inv[i]) /\ prev # Nil /\ IsSuccessResponse(prev))
        => /\ CallCount(prev.calls, "events.patch") = 1
           /\ CallCount(inv[i].calls, "events.patch") = 0
           /\ remote = prev.remote
           /\ Fetched(inv[i])
              => /\ RespondedWith(inv[i], 200, AlreadyPresentFields)
                 /\ inv[i].response.body.processed = FALSE

\* the second handling of a notification that was a success the first time
\* has fetched the event and ended
C3_Witness ==
    \E i \in Invs :
        /\ prev # Nil /\ IsSuccessResponse(prev)
        /\ prev.request = inv[i].request
        /\ Fetched(inv[i])
        /\ Ended(inv[i])
        /\ "NOTETAKER_EMAIL" \in DOMAIN env

(***************************************************************************)
(* C4.  When the fetched snapshot already lists the target address, in any *)
(* letter-case, the invocation issues no events.patch and answers with     *)
(* status 200 and the body {message, processed: false, existingAttendees}. *)
(***************************************************************************)
C4_AlreadyPresentIsNoOp ==
    \A i \in Invs :
        (Fetched(inv[i]) /\ HasTarget(SnapshotAttendees(inv[i])))
        => /\ CallCount(inv[i].calls, "events.patch") = 0
           /\ RespondedWith(inv[i], 200, AlreadyPresentFields)
           /\ inv[i].response.body.processed = FALSE

\* the target was found in the snapshot under another letter-case
C4_Witness ==
    \E i \in Invs :
        /\ Fetched(inv[i])
        /\ \E k \in 1..Len(SnapshotAttendees(inv[i])) :
               /\ "email" \in DOMAIN SnapshotAttendees(inv[i])[k]
               /\ SnapshotAttendees(inv[i])[k].email = "NOTETAKER@MAGICALTEAMS.COM"
        /\ NOTETAKER_EMAIL(env) = "notetaker@magicalteams.com"
        /\ RespondedWith(inv[i], 200, AlreadyPresentFields)

(***************************************************************************)
(* C5.  When the fetched snapshot does not list the target address, the    *)
(* invocation issues exactly one events.patch, and the attendee list it    *)
(* sends is the snapshot's list, entry for entry and in the same order,    *)
(* followed by one entry for the target address.                           *)
(***************************************************************************)
C5_PatchAppendsOneEntry ==
    \A i \in Invs :
        (Fetched(inv[i]) /\ ~HasTarget(SnapshotAttendees(inv[i])))
        => /\ CallCount(inv[i].calls, "events.patch") = 1
           /\ Len(inv[i].calls) = 2
           /\ inv[i].calls[2].op = "events.patch"
           /\ LET sent == inv[i].calls[2].requestBody.attendees
                  old == SnapshotAttendees(inv[i])
              IN  /\ Len(sent) = Len(old) + 1
                  /\ \A k \in 1..Len(old) : sent[k] = old[k]
                  /\ sent[Len(sent)].email = NOTETAKER_EMAIL(env)

\* a snapshot with a repeated attendee and an attendee without email has
\* been extended by a patch
C5_Witness ==
    \E i \in Invs :
        /\ Fetched(inv[i])
        /\ Len(SnapshotAttendees(inv[i])) = 4
        /\ ~HasTarget(SnapshotAttendees(inv[i]))
        /\ CallCount(inv[i].calls, "events.patch") = 1
        /\ Len(remote.event.attendees) = 5

(***************************************************************************)
(* C6.  An invitee.created notification from an authorized host whose      *)
(* payload carries no external calendar-event identifier is answered with  *)
(* status 400 and the body {error}, without delay and without any calendar *)
(* call.                                                                   *)
(***************************************************************************)
\* the payload has no identifier at any place the extractor reads
LacksExternalId(scheduledEvent) ==
    /\ ~Truthy(scheduledEvent, "external_id")
    /\ \/ "calendar_event" \notin DOMAIN scheduledEvent
       \/ ~Truthy(scheduledEvent.calendar_event, "external_id")

C6_MissingIdentifierIs400 ==
    \A i \in Invs :
        (/\ ReachesExtraction(inv[i])
         /\ includes(AUTHORIZED_HOSTS, ExtractedHost(inv[i]))
         /\ "scheduled_event" \in DOMAIN NotificationOf(inv[i]).payload
         /\ LacksExternalId(NotificationOf(inv[i]).payload.scheduled_event))
        => /\ RespondedWith(inv[i], 400, {"error"})
           /\ NothingOutbound(inv[i])

\* an authorized host's notification without identifier has been answered 400
C6_Witness ==
    \E i \in Invs :
        /\ ReachesExtraction(inv[i])
        /\ inv[i].request.rawBody = << "q" >>
        /\ ExtractedHost(inv[i]) = "christina@magicalteams.com"
        /\ RespondedWith(inv[i], 400, {"error"})

(***************************************************************************)
(* C7.  Every invocation that ends has produced a structured response: no  *)
(* exception leaves the handler, whatever the request and whatever error   *)
(* the calendar client throws.                                             *)
(***************************************************************************)
C7_AlwaysAResponse ==
    \A i \in Invs :
        Ended(inv[i]) => (inv[i].outcome = "response" /\ inv[i].response # Nil)

(***************************************************************************)
(* C8.  A failure of the calendar provider other than a 404 of events.get  *)
(* (any other events.get error, any events.patch error) is never reported  *)
(* with a success or client-error status: the response to it has a         *)
(* server-error status (500..599) and the body {error, message, details}.  *)
(***************************************************************************)
\* the error of the call that failed, other than a 404 of events.get
IsProviderFailure(v, k) ==
    /\ k \in 1..Len(v.results)
    /\ "error" \in DOMAIN v.results[k]
    /\ ~(v.calls[k].op = "events.get" /\ "code" \in DOMAIN v.results[k].error
                                      /\ v.results[k].error.code = [num |-> 404])

ErrorFields == {"error", "message", "details"}

GetFailedNotFound(v) ==
    /\ Len(v.results) >= 1
    /\ "error" \in DOMAIN v.results[1]
    /\ "code" \in DOMAIN v.results[1].error
    /\ v.results[1].error.code = [num |-> 404]

C9_FetchNotFoundIs404 ==
    \A i \in Invs :
        GetFailedNotFound(inv[i])
        => /\ RespondedWith(inv[i], 404, {"error", "externalId"})
           /\ inv[i].response.body.externalId = inv[i].eventDetails.externalId
           /\ CallCount(inv[i].calls, "events.patch") = 0
           /\ CallCount(inv[i].calls, "events.get") = 1

\* the event was not visible yet and the fetch was answered 404
C9_Witness ==
    \E i \in Invs :
        /\ ~remote.visible
        /\ GetFailedNotFound(inv[i])
        /\ RespondedWith(inv[i], 404, {"error", "externalId"})

(***************************************************************************)
(* C10.  A notification whose event field is not "invitee.created" (or is  *)
(* missing) and which came through the signature step is answered with     *)
(* status 200 and the body {message, processed: false}, without delay and  *)
(* without any calendar call.                                              *)
(***************************************************************************)
C10_OtherEventTypesIgnored ==
    \A i \in Invs :
        (/\ IsNotification(inv[i])
         /\ ~VerificationFails(inv[i])
         /\ Prop(NotificationOf(inv[i]), "event") # "invitee.created")
        => /\ RespondedWith(inv[i], 200, {"message", "processed"})
           /\ inv[i].response.body.processed = FALSE
           /\ NothingOutbound(inv[i])

\* a correctly signed invitee.canceled of an authorized host has been ignored
C10_Witness ==
    \E i \in Invs :
        /\ KeyConfigured
        /\ inv[i].request = [rawBody |-> << "i" >>,
                             signatureHeader |-> SignedHeader(<< "i" >>, CalendlyKey, << "1" >>)]
        /\ RespondedWith(inv[i], 200, {"message", "processed"})

(***************************************************************************)
(* C11.  The signature step comes before the event-type filter: a          *)
(* notification of another type than "invitee.created" whose present       *)
(* signature does not verify under the configured key is answered 401, and *)
(* one that is answered processed:false has come through the signature     *)
(* step.                                                                   *)
(***************************************************************************)
OtherEventType(v) ==
    /\ IsNotification(v)
    /\ Prop(NotificationOf(v), "event") # "invitee.created"

C11_SignatureBeforeFilter ==
    \A i \in Invs :
        OtherEventType(inv[i])
        => /\ VerificationFails(inv[i]) => RespondedWith(inv[i], 401, {"error"})
           /\ RespondedWith(inv[i], 200, {"message", "processed"})
              => (~VerificationFails(inv[i]) /\ inv[i].isValid # << FALSE >>)

\* an invitee.canceled notification signed with another key was answered 401
C11_Witness ==
    \E i \in Invs :
        /\ KeyConfigured
        /\ inv[i].request = [rawBody |-> << "i" >>,
                             signatureHeader |-> SignedHeader(<< "i" >>, ForgedKey, << "1" >>)]
        /\ OtherEventType(inv[i])
        /\ inv[i].isValid = << FALSE >>
        /\ RespondedWith(inv[i], 401, {"error"})

(***************************************************************************)
(* C13.  With a signing key configured and no signature header on the      *)
(* request, the verifier is not called, the request is never answered 401, *)
(* and the handler goes on exactly as it does for the same body carrying a *)
(* signature that verifies: same extracted details, same early response or *)
(* the same single delay before the calendar calls.                        *)
(***************************************************************************)
HeaderAbsent(v) == Started(v) /\ v.request.signatureHeader = << >>

\* the first segment of the handler for the same body, correctly signed
VerifiedTwin(v) ==
    PostStart([rawBody |-> v.request.rawBody,
               signatureHeader |-> SignedHeader(v.request.rawBody,
                                                trim(env.CALENDLY_WEBHOOK_SIGNING_KEY),
                                                << "1" >>)], env)

ProceedsAs(v, twin) ==
    /\ v.eventDetails = twin.eventDetails
    /\ v.sleeps = twin.sleeps
    /\ twin.pc = "done"
       => /\ Ended(v) /\ v.calls = << >>
          /\ v.outcome = twin.outcome
          /\ v.response = twin.response
          /\ v.thrown = twin.thrown
    /\ twin.pc = "sleeping" => v.sleeps # << >>
    /\ v.pc = "sleeping" => [v EXCEPT !.request = twin.request,
                                      !.isValid = twin.isValid] = twin

C13_MissingHeaderAccepted ==
    \A i \in Invs :
        (KeyConfigured /\ HeaderAbsent(inv[i]) /\ IsNotification(inv[i]))
        => /\ inv[i].isValid = << >>
           /\ ~RespondedWith(inv[i], 401, {"error"})
           /\ VerifiedTwin(inv[i]).isValid = << TRUE >>
           /\ ProceedsAs(inv[i], VerifiedTwin(inv[i]))

\* an eligible notification without the header, under a configured key, went
\* on to the calendar and was answered with the success body
C13_Witness ==
    \E i \in Invs :
        /\ KeyConfigured
        /\ HeaderAbsent(inv[i])
        /\ IsNotification(inv[i])
        /\ CallCount(inv[i].calls, "events.patch") = 1
        /\ IsSuccessResponse(inv[i])

(***************************************************************************)
(* C19.  An invocation issues at most one events.get and at most one       *)
(* events.patch, the get first; the patch is only issued after the get has *)
(* returned data; a call that failed is the invocation's last call.        *)
(***************************************************************************)
FailedAt(v, k) == k \in 1..Len(v.results) /\ "error" \in DOMAIN v.results[k]

Sleeping(v) == v.pc = "sleeping"

SleptOnceBeforeFetch(v) ==
    /\ Len(v.sleeps) <= 1
    /\ Sleeping(v) => (v.calls = << >> /\ v.sleeps = << 5000 >>)
    /\ CallCount(v.calls, "events.get") > 0 => (v.sleeps = << 5000 >> /\ ~Sleeping(v))

\* the step that issues events.get is the one that ends the delay
FetchEndsDelay(v, w) ==
    (CallCount(v.calls, "events.get") = 0 /\ CallCount(w.calls, "events.get") > 0)
    => (Sleeping(v) /\ w.sleeps = v.sleeps)

C20_DelayBeforeFetch ==
    /\ [](\A i \in Invs : SleptOnceBeforeFetch(inv[i]))
    /\ [][\A i \in Invs : FetchEndsDelay(inv[i], inv'[i])]_vars

\* an invocation slept once and is waiting for the answer of events.get
C20_Witness ==
    \E i \in Invs :
        /\ inv[i].pc = "awaitGet"
        /\ inv[i].sleeps = << 5000 >>
        /\ CallCount(inv[i].calls, "events.get") = 1

(***************************************************************************)
(* C18.  A call the calendar provider rejected for rate limiting is issued *)
(* again, after a further (backoff) delay, before the invocation gives up. *)
(***************************************************************************)
RetriedAfter(v, k) ==
    /\ \E m \in (k + 1)..Len(v.calls) : v.calls[m].op = v.calls[k].op
    /\ Len(v.sleeps) > 1

\* the provider answered the k-th call with 429 (rate limit exceeded)
RateLimitedAt(v, k) ==
    /\ FailedAt(v, k)
    /\ "code" \in DOMAIN v.results[k].error
    /\ v.results[k].error.code = [num |-> 429]

C18_RejectedCallIsRetried ==
    \A i \in Invs :
        \A k \in 1..Len(inv[i].results) :
            (Ended(inv[i]) /\ RateLimitedAt(inv[i], k)) => RetriedAfter(inv[i], k)

(***************************************************************************)
(* C12.  As claimed: with no signing key configured the verifier returns   *)
(* true for every header value of a request.                               *)
(***************************************************************************)
VerifierResult(v) ==
    verifyCalendlySignature(v.request.rawBody, v.request.signatureHeader, signingKeyOf(env))

C12_VerifierTrueWithoutKey ==
    \A i \in Invs :
        (Started(inv[i]) /\ ~KeyConfigured) => VerifierResult(inv[i])

(***************************************************************************)
(* C12, amended.  With no signing key configured (unset, or blank once     *)
(* trimmed) the verifier, which would return false, is not called: for     *)
(* every header value the request is never answered 401 and the handler    *)
(* goes on to the event-type filter exactly as for the same body without   *)
(* the header.                                                             *)
(***************************************************************************)
\* the first segment of the handler for the same body without the header
HeaderlessTwin(v) ==
    PostStart([rawBody |-> v.request.rawBody, signatureHeader |-> << >>], env)

C12_NoKeySkipsVerification ==
    \A i \in Invs :
        (~KeyConfigured /\ IsNotification(inv[i]))
        => /\ ~VerifierResult(inv[i])
           /\ inv[i].isValid = << >>
           /\ ~RespondedWith(inv[i], 401, {"error"})
           /\ ProceedsAs(inv[i], HeaderlessTwin(inv[i]))

\* under a blank key, an invitee.canceled notification carrying a signature
\* made with some other key went through to the event-type filter
C12_Witness ==
    \E i \in Invs :
        /\ "CALENDLY_WEBHOOK_SIGNING_KEY" \in DOMAIN env
        /\ ~KeyConfigured
        /\ Started(inv[i])
        /\ inv[i].request.signatureHeader = SignedHeader(<< "i" >>, ForgedKey, << "1" >>)
        /\ OtherEventType(inv[i])
        /\ RespondedWith(inv[i], 200, {"message", "processed"})

(***************************************************************************)
(* The signature step on its own: one notification, received at some time  *)
(* with any of a larger set of signature headers under any of a larger set *)
(* of signing keys, and the same request delivered once more later.  The   *)
(* time of receipt is startTime = Date.now() (route.js 205).               *)
(***************************************************************************)
MaxClock == 5

SigKeys == { << "k" >>, << "z" >>, << "k", "z" >> }

SigTimestamps == { << "0" >>, << "1" >>, << "4" >> }

\* not JSON; an invitee.canceled notification; an eligible invitee.created one
SigBodies == { << "g" >>, << "i" >>, << "m" >> }

SigEnvironments ==
    { [GOOGLE_SERVICE_ACCOUNT_KEY |-> "{client_email, private_key}"] }
    \cup { [CALENDLY_WEBHOOK_SIGNING_KEY |-> key,
            GOOGLE_SERVICE_ACCOUNT_KEY |-> "{client_email, private_key}"] :
           key \in SigKeys \cup { << " " >>, << " ", "k", " " >> } }

\* the hex digest Calendly puts after v1= for this body and timestamp
SignatureHex(rawBody, key, t) == digestHex(createHmac(key, t \o << "." >> \o rawBody))

\* headers without a t= field, without a v1= field, with a v1= field that
\* holds no hex, or that are no list of fields at all
MalformedHeaders(rawBody) ==
    { << "t", "=", "1" >>,
      << "t", "=", "1", ",", "v", "1", "=" >>,
      << "t", "=", "1", ",", "v", "1", "=", "x", "y", "z", "w" >>,
      << "v", "1", "=" >> \o SignatureHex(rawBody, CalendlyKey, << "1" >>),
      << "t", "1", ",", "v", "1" >>,
      << "x" >>,
      << "," >>,
      << " ", "t", "=", "1", ",", " ", "v", "1", "=" >>
          \o SignatureHex(rawBody, CalendlyKey, << "1" >>) }

\* the characters one character of a header may be replaced by
TamperChars ==
    { HexDigits[k] : k \in 1..16 } \cup { "A", "B", "C", "D", "E", "F", "x", ",", " " }

\* the places of the signature hex in a header that ends with it
HexPlaces(header, rawBody, key, t) ==
    (Len(header) - Len(SignatureHex(rawBody, key, t)) + 1)..Len(header)

\* a signed header with one character of its signature hex replaced
TamperedHeaders(rawBody, key, t) ==
    LET header == SignedHeader(rawBody, key, t)
    IN  UNION { { [header EXCEPT ![place] = c] : c \in TamperChars \ { header[place] } } :
                  place \in HexPlaces(header, rawBody, key, t) }

SigHeaders(rawBody) ==
    { << >> }
    \cup MalformedHeaders(rawBody)
    \cup { SignedHeader(rawBody, key, t) : key \in SigKeys, t \in SigTimestamps }
    \cup TamperedHeaders(rawBody, CalendlyKey, << "1" >>)

InitSig ==
    /\ env \in SigEnvironments
    /\ remote = [visible |-> TRUE, event |-> [id |-> EventId]]
    /\ inv = [i \in Invs |-> IdleInv]
    /\ prev = Nil
    /\ delivered = 0

\* a notification arrives at time `now`; POST runs up to its first suspension
ReceiveAt(i, rawBody, signatureHeader, now) ==
    /\ inv[i].pc = "idle"
    /\ delivered = 0
    /\ inv' = [inv EXCEPT ![i] = PostStart([rawBody |-> rawBody,
                                            signatureHeader |-> signatureHeader,
                                            receivedAt |-> now], env)]
    /\ delivered' = 1
    /\ UNCHANGED << env, remote, prev >>

\* the request invocation i received arrives again, unchanged, at a later
\* time and is handled by invocation j
Replay(i, j, now) ==
    /\ Started(inv[i])
    /\ inv[j].pc = "idle"
    /\ delivered = 1
    /\ now > inv[i].request.receivedAt
    /\ inv' = [inv EXCEPT ![j] = PostStart([inv[i].request EXCEPT !.receivedAt = now], env)]
    /\ delivered' = 2
    /\ UNCHANGED << env, remote, prev >>

NextSig ==
    \/ \E rawBody \in SigBodies, now \in 0..MaxClock :
           \E signatureHeader \in SigHeaders(rawBody) :
               ReceiveAt(1, rawBody, signatureHeader, now)
    \/ \E now \in 0..MaxClock : Replay(1, 2, now)

SpecSig == InitSig /\ [][NextSig]_vars

(***************************************************************************)
(* C14.  With a signing key configured and a body the handler could parse, *)
(* a present header that is malformed or lacks the t= field or the v1=     *)
(* field makes the verifier return the value false, and the request is     *)
(* answered 401 {error} with nothing started.                              *)
(***************************************************************************)
Parsed(v) == Started(v) /\ JSONparse(v.request.rawBody) # << >>

HeaderMalformed(v) ==
    /\ Started(v)
    /\ v.request.signatureHeader \in MalformedHeaders(v.request.rawBody)

CorrectlySigned(v) ==
    /\ Started(v)
    /\ KeyConfigured
    /\ \E t \in SigTimestamps :
           v.request.signatureHeader = SignedHeader(v.request.rawBody, signingKeyOf(env), t)

C15_CorrectSignatureVerifies ==
    \A i \in Invs :
        CorrectlySigned(inv[i])
        => /\ VerifierResult(inv[i])
           /\ Parsed(inv[i])
              => (inv[i].isValid = << TRUE >> /\ ~RespondedWith(inv[i], 401, {"error"}))

\* under the two-character key, the eligible notification signed with that
\* key at timestamp 4 was verified and went on to the delay
C15_Witness ==
    \E i \in Invs :
        /\ signingKeyOf(env) = << "k", "z" >>
        /\ CorrectlySigned(inv[i])
        /\ inv[i].request.rawBody = << "m" >>
        /\ inv[i].request.signatureHeader = SignedHeader(<< "m" >>, << "k", "z" >>, << "4" >>)
        /\ inv[i].isValid = << TRUE >>
        /\ Sleeping(inv[i])

(***************************************************************************)
(* C16.  As claimed: starting from a header that verifies, replacing any   *)
(* one character of the signature hex by any other character, a change of  *)
(* letter case included, makes the verifier return false.                  *)
(***************************************************************************)
\* the header is the correctly signed one with one hex character replaced
Tampered(v) ==
    /\ Started(v)
    /\ signingKeyOf(env) = CalendlyKey
    /\ v.request.signatureHeader \in TamperedHeaders(v.request.rawBody, CalendlyKey, << "1" >>)

C16_AnyReplacementFails ==
    \A i \in Invs : Tampered(inv[i]) => ~VerifierResult(inv[i])

(***************************************************************************)
(* C16, amended.  Replacing one character of the signature hex makes the   *)
(* verifier return false, and the request get 401, unless the replacement  *)
(* is the same hex letter in the other case: hex decoding ignores letter   *)
(* case, so that header still verifies.                                    *)
(***************************************************************************)
UpperCase(c) ==
    CASE c = "a" -> "A" [] c = "b" -> "B" [] c = "c" -> "C"
      [] c = "d" -> "D" [] c = "e" -> "E" [] c = "f" -> "F"
      [] OTHER -> c

\* the header differs from the correctly signed one in letter case only
CaseChangeOnly(v) ==
    LET signed == SignedHeader(v.request.rawBody, CalendlyKey, << "1" >>)
        header == v.request.signatureHeader
    IN  /\ Len(header) = Len(signed)
        /\ \A k \in 1..Len(signed) : UpperCase(header[k]) = UpperCase(signed[k])

C16_ReplacementFailsUnlessCaseOnly ==
    \A i \in Invs :
        Tampered(inv[i])
        => /\ VerifierResult(inv[i]) <=> CaseChangeOnly(inv[i])
           /\ (Parsed(inv[i]) /\ ~CaseChangeOnly(inv[i]))
              => (inv[i].isValid = << FALSE >> /\ RespondedWith(inv[i], 401, {"error"}))
           /\ (Parsed(inv[i]) /\ CaseChangeOnly(inv[i]))
              => (inv[i].isValid = << TRUE >> /\ ~RespondedWith(inv[i], 401, {"error"}))

\* one hex digit of the signature of the eligible notification was replaced
\* by the non-hex character x, and the request was answered 401
C16_Witness ==
    \E i \in Invs :
        /\ Tampered(inv[i])
        /\ inv[i].request.rawBody = << "m" >>
        /\ \E k \in 1..Len(inv[i].request.signatureHeader) :
               inv[i].request.signatureHeader[k] = "x"
        /\ inv[i].isValid = << FALSE >>
        /\ RespondedWith(inv[i], 401, {"error"})

(***************************************************************************)
(* C17.  A replayed message is rejected: a request that arrives again,     *)
(* with a signature that is correct for its timestamp and body, is         *)
(* answered 401 when its signed timestamp is older at the time of receipt  *)
(* than the tolerance window (any window shorter than MaxClock).           *)
(***************************************************************************)
\* the signed timestamp of a header "t=<digit>,..."
SignedTime(v) == CharCode(v.request.signatureHeader[3]) - 1

Age(v) == v.request.receivedAt - SignedTime(v)

\* invocation i handles a request an earlier invocation has received already
IsReplay(i) ==
    \E j \in Invs \ {i} :
        /\ Started(inv[j]) /\ Started(inv[i])
        /\ inv[j].request.rawBody = inv[i].request.rawBody
        /\ inv[j].request.signatureHeader = inv[i].request.signatureHeader
        /\ inv[j].request.receivedAt < inv[i].request.receivedAt

C17_StaleReplayRejected ==
    \A i \in Invs :
        (IsReplay(i) /\ CorrectlySigned(inv[i]) /\ Parsed(inv[i]) /\ Age(inv[i]) >= MaxClock)
        => (inv[i].isValid = << FALSE >> /\ RespondedWith(inv[i], 401, {"error"}))

(***************************************************************************)
(* C26.  The body is parsed before the signature step: a body that is not  *)
(* JSON is answered with status 500 and the body {error, message, details},*)
(* whatever the signing key and the signature header are (never 401), the  *)
(* verifier is not called, and neither the delay nor a calendar call       *)
(* happens.                                                                *)
(***************************************************************************)
\* the text of the model that is no JSON
NotJsonText == << "g" >>

C26_UnparsableBodyIs500 ==
    \A i \in Invs :
        (Started(inv[i]) /\ inv[i].request.rawBody = NotJsonText)
        => /\ RespondedWith(inv[i], 500, ErrorFields)
           /\ inv[i].response.body.error = "Failed to process webhook"
           /\ inv[i].isValid = << >>
           /\ NothingOutbound(inv[i])

\* under a configured key, a body that is no JSON arrived with a signature
\* made with another key and was answered 500
C26_Witness ==
    \E i \in Invs :
        /\ KeyConfigured
        /\ Started(inv[i])
        /\ inv[i].request.rawBody = NotJsonText
        /\ inv[i].request.signatureHeader = SignedHeader(NotJsonText, ForgedKey, << "1" >>)
        /\ RespondedWith(inv[i], 500, ErrorFields)

(***************************************************************************)
(* C25.  An invocation responds with the success body exactly when it has  *)
(* issued one events.patch and that patch returned without error; every    *)
(* other ended invocation either issued no events.patch or had it fail.    *)
(***************************************************************************)
\* the invocation issued exactly one events.patch, as its k-th call, and the
\* answer to it was not an error
PatchedOnce(v) ==
    /\ CallCount(v.calls, "events.patch") = 1
    /\ \E k \in 1..Len(v.results) :
           /\ v.calls[k].op = "events.patch"
           /\ "data" \in DOMAIN v.results[k]

PatchFailed(v) ==
    \E k \in 1..Len(v.results) :
        v.calls[k].op = "events.patch" /\ "error" \in DOMAIN v.results[k]

C25_SuccessIffPatched ==
    \A i \in Invs :
        Ended(inv[i])
        => /\ (inv[i].outcome = "response" /\ IsSuccessResponse(inv[i])) <=> PatchedOnce(inv[i])
           /\ ~(inv[i].outcome = "response" /\ IsSuccessResponse(inv[i]))
              => (CallCount(inv[i].calls, "events.patch") = 0 \/ PatchFailed(inv[i]))
           /\ IsSuccessResponse(inv[i]) => inv[i].response.status = 200

\* one invocation ended on the already-present reply without any patch after
\* an earlier delivery had been answered with the success body
C25_Witness ==
    \E i \in Invs :
        /\ prev # Nil
        /\ prev.outcome = "response"
        /\ "success" \in DOMAIN prev.response.body
        /\ CallCount(prev.calls, "events.patch") = 1
        /\ RespondedWith(inv[i], 200, AlreadyPresentFields)
        /\ CallCount(inv[i].calls, "events.patch") = 0

(***************************************************************************)
(* C23.  As claimed: the last entry of the attendee list an events.patch   *)
(* sends is exactly {email: target, responseStatus: "needs-action"}.       *)
(***************************************************************************)
\* the attendee lists the invocation has sent in events.patch calls
SentLists(v) ==
    { v.calls[k].requestBody.attendees :
        k \in { n \in 1..Len(v.calls) : v.calls[n].op = "events.patch" } }

LastOf(list) == list[Len(list)]

C23_AppendedEntryNeedsDashAction ==
    \A i \in Invs : \A sent \in SentLists(inv[i]) :
        LastOf(sent) = [email |-> NOTETAKER_EMAIL(env), responseStatus |-> "needs-action"]

(***************************************************************************)
(* C23, amended.  The last entry of the attendee list an events.patch      *)
(* sends is exactly {email: target, responseStatus: "needsAction"}, target *)
(* being the configured address as written (not lower-cased); it is the    *)
(* one entry added to the fetched list, and once the patch is applied it   *)
(* is the last entry of the stored list.                                   *)
(***************************************************************************)
C23_AppendedEntryNeedsAction ==
    \A i \in Invs : \A sent \in SentLists(inv[i]) :
        /\ DOMAIN LastOf(sent) = {"email", "responseStatus"}
        /\ LastOf(sent).email = NOTETAKER_EMAIL(env)
        /\ LastOf(sent).responseStatus = "needsAction"
        /\ SubSeq(sent, 1, Len(sent) - 1) = SnapshotAttendees(inv[i])
        /\ IsSuccessResponse(inv[i]) => LastOf(remote.event.attendees) = LastOf(sent)

\* with NOTETAKER_EMAIL configured in mixed case, a patch was applied and the
\* stored list ends with the entry for that address as written
C23_Witness ==
    \E i \in Invs :
        /\ "NOTETAKER_EMAIL" \in DOMAIN env
        /\ Ended(inv[i])
        /\ inv[i].outcome = "response"
        /\ IsSuccessResponse(inv[i])
        /\ SentLists(inv[i]) # {}
        /\ LastOf(remote.event.attendees) =
               [email |-> "Notes@MagicalTeams.com", responseStatus |-> "needsAction"]

(***************************************************************************)
(* C22.  As claimed: when scheduled_event.external_id is absent or empty   *)
(* the extracted identifier is empty whatever else the payload carries,    *)
(* and the request of an authorized host ends with the 400 response and    *)
(* nothing started.                                                        *)
(***************************************************************************)
\* the scheduled_event of the notification, {} when the payload has none
ScheduledEventOf(v) ==
    IF "scheduled_event" \in DOMAIN NotificationOf(v).payload
    THEN NotificationOf(v).payload.scheduled_event ELSE EmptyObject

AuthorizedExtraction(v) ==
    /\ ReachesExtraction(v)
    /\ includes(AUTHORIZED_HOSTS, ExtractedHost(v))

C22_OnlyMainPathIsRead ==
    \A i \in Invs :
        (AuthorizedExtraction(inv[i]) /\ ~Truthy(ScheduledEventOf(inv[i]), "external_id"))
        => /\ inv[i].eventDetails.externalId = ""
           /\ RespondedWith(inv[i], 400, {"error"})
           /\ NothingOutbound(inv[i])

(***************************************************************************)
(* C22, amended.  The extractor reads the identifier at                    *)
(* scheduled_event.external_id and, when that is absent or empty, at       *)
(* scheduled_event.calendar_event.external_id.  Only when both are absent  *)
(* or empty is the extracted identifier empty and the request answered 400 *)
(* with nothing started; otherwise the identifier found is the one the     *)
(* calendar calls are made with.                                           *)
(***************************************************************************)
IdentifierAt(scheduledEvent) ==
    IF Truthy(scheduledEvent, "external_id") THEN scheduledEvent.external_id
    ELSE IF "calendar_event" \in DOMAIN scheduledEvent
            /\ Truthy(scheduledEvent.calendar_event, "external_id")
         THEN scheduledEvent.calendar_event.external_id
         ELSE ""

C22_TwoPathsAreRead ==
    \A i \in Invs :
        AuthorizedExtraction(inv[i])
        => LET id == IdentifierAt(ScheduledEventOf(inv[i]))
           IN  /\ inv[i].eventDetails.externalId = id
               /\ id = "" <=> RespondedWith(inv[i], 400, {"error"})
               /\ id = "" => NothingOutbound(inv[i])
               /\ id # "" => inv[i].sleeps # << >>
               /\ \A k \in 1..Len(inv[i].calls) : inv[i].calls[k].eventId = id

\* a notification with an empty scheduled_event.external_id and an
\* identifier under calendar_event fetched the event by that identifier
C22_Witness ==
    \E i \in Invs :
        /\ AuthorizedExtraction(inv[i])
        /\ inv[i].request.rawBody = << "r" >>
        /\ ~Truthy(ScheduledEventOf(inv[i]), "external_id")
        /\ Len(inv[i].calls) >= 1
        /\ inv[i].calls[1].op = "events.get"
        /\ inv[i].calls[1].eventId = EventId
        /\ Fetched(inv[i])

(***************************************************************************)
(* Concurrent invocations.  The platform starts one invocation of POST per *)
(* request, and an invocation that is suspended at an await leaves the     *)
(* others free to run: notifications for the same calendar event arrive at *)
(* any time, and the steps of their invocations interleave in any order.   *)
(* Nothing but the invocations' own patches writes the event.              *)
(***************************************************************************)
\* eligible notifications of one host for the one event: the identifier at
\* the main path, the host in mixed case, the identifier under calendar_event
RaceBodies == { << "m" >>, << "n" >>, << "r" >> }

RaceEnvironments ==
    { [CALENDLY_WEBHOOK_SIGNING_KEY |-> CalendlyKey,
       GOOGLE_SERVICE_ACCOUNT_KEY |-> "{client_email, private_key}"],
      [CALENDLY_WEBHOOK_SIGNING_KEY |-> CalendlyKey,
       GOOGLE_SERVICE_ACCOUNT_KEY |-> "{client_email, private_key}",
       NOTETAKER_EMAIL |-> "Notes@MagicalTeams.com"] }

\* the failures of the provider the racing invocations may meet
RaceErrors == { e \in ProviderErrors : "code" \in DOMAIN e /\ e.code = [num |-> 429] }

InitRace ==
    /\ env \in RaceEnvironments
    /\ remote \in [visible : BOOLEAN, event : InitialEvents]
    /\ inv = [i \in Invs |-> IdleInv]
    /\ prev = Nil
    /\ delivered = 0

\* a notification arrives while other invocations may be under way
Arrive(i, rawBody) ==
    /\ inv[i].pc = "idle"
    /\ \A j \in 1..(i - 1) : inv[j].pc # "idle"
    /\ inv' = [inv EXCEPT ![i] =
                   PostStart([rawBody |-> rawBody,
                              signatureHeader |-> SignedHeader(rawBody, CalendlyKey, << "1" >>)],
                             env)]
    /\ delivered' = delivered + 1
    /\ UNCHANGED << env, remote, prev >>

NextRace ==
    \/ \E i \in Invs, rawBody \in RaceBodies : Arrive(i, rawBody)
    \/ \E i \in Invs : SleepDone(i)
    \/ \E i \in Invs : GetSucceeds(i)
    \/ \E i \in Invs : GetFails(i, NotFoundError)
    \/ \E i \in Invs, error \in RaceErrors : GetFails(i, error)
    \/ \E i \in Invs : PatchSucceeds(i)
    \/ \E i \in Invs, error \in RaceErrors : PatchFails(i, error)
    \/ CalendlySync

SpecRace == InitRace /\ [][NextRace]_vars

(***************************************************************************)
(* C21.  Nothing keeps two invocations for the same event from both        *)
(* fetching before either patches.  Two invocations whose snapshots both   *)
(* lack the target address both decide to apply and both issue             *)
(* events.patch, and each answers with the success body once its patch     *)
(* has returned; an invocation whose fetch is answered after another       *)
(* invocation's patch has been applied issues no patch and answers with    *)
(* the already-present body.                                               *)
(***************************************************************************)
DecidedApply(v) == Fetched(v) /\ ~HasTarget(SnapshotAttendees(v))

\* both fetched before either patch was applied: both go on to patch
BothApply(v, w) ==
    (DecidedApply(v) /\ DecidedApply(w))
    => /\ CallCount(v.calls, "events.patch") = 1
       /\ CallCount(w.calls, "events.patch") = 1
       /\ (Ended(v) /\ PatchedOnce(v)) => IsSuccessResponse(v)
       /\ (Ended(w) /\ PatchedOnce(w)) => IsSuccessResponse(w)

\* the step in which w's fetch is answered, after v's patch has been applied
FetchAfterPatch(v, w, wNext) ==
    (PatchedOnce(v) /\ ~Fetched(w) /\ Fetched(wNext))
    => /\ HasTarget(SnapshotAttendees(wNext))
       /\ CallCount(wNext.calls, "events.patch") = 0
       /\ RespondedWith(wNext, 200, AlreadyPresentFields)

C21_RaceIsUnprotected ==
    /\ [](\A i, j \in Invs : i # j => BothApply(inv[i], inv[j]))
    /\ [][\A i, j \in Invs : i # j => FetchAfterPatch(inv[i], inv[j], inv'[j])]_vars

\* two invocations for the same event have both patched it and both
\* answered with the success body
C21_Witness ==
    \E i, j \in Invs :
        /\ i # j
        /\ DecidedApply(inv[i]) /\ DecidedApply(inv[j])
        /\ inv[i].calls[1].eventId = inv[j].calls[1].eventId
        /\ PatchedOnce(inv[i]) /\ PatchedOnce(inv[j])
        /\ Ended(inv[i]) /\ IsSuccessResponse(inv[i])
        /\ Ended(inv[j]) /\ IsSuccessResponse(inv[j])

(***************************************************************************)
(* C24.  Whatever the number of concurrent invocations on the event and    *)
(* the order of their fetches and patches, the stored attendee list holds  *)
(* the target address at most once and keeps every attendee it had, in the *)
(* same order: each step leaves the list as it was or extends it at its    *)
(* end, and every patch sent is the list as first stored plus one entry.   *)
(***************************************************************************)
StoredAttendees(r) == IF "attendees" \in DOMAIN r.event THEN r.event.attendees ELSE << >>

TargetCount(attendees) ==
    Cardinality({ k \in 1..Len(attendees) :
                    /\ "email" \in DOMAIN attendees[k]
                    /\ toLowerCase(attendees[k].email) = toLowerCase(NOTETAKER_EMAIL(env)) })

IsPrefix(a, b) == Len(a) <= Len(b) /\ SubSeq(b, 1, Len(a)) = a

C24_RacingPatchesAgree ==
    /\ [](TargetCount(StoredAttendees(remote)) <= 1)
    /\ [](\A i, j \in Invs : \A a \in SentLists(inv[i]), b \in SentLists(inv[j]) : a = b)
    /\ [][IsPrefix(StoredAttendees(remote), StoredAttendees(remote'))
          /\ Len(StoredAttendees(remote')) <= Len(StoredAttendees(remote)) + 1]_vars

\* two patches of two invocations were applied to a list of four attendees,
\* which now has five
C24_Witness ==
    \E i, j \in Invs :
        /\ i # j
        /\ PatchedOnce(inv[i]) /\ PatchedOnce(inv[j])
        /\ Len(SnapshotAttendees(inv[i])) = 4
        /\ Len(SnapshotAttendees(inv[j])) = 4
        /\ Len(StoredAttendees(remote)) = 5
        /\ TargetCount(StoredAttendees(remote)) = 1

=============================================================================
